---- MODULE Spec2Model ----
(***************************************************************************)
(* The Translator component (src/unnamed/part_000, the same logic in       *)
(* src/unnamed/part_001): a React function component that records          *)
(* microphone audio in chunks, uploads every chunk, merges the responses   *)
(* into three text fields and speaks the translation.                      *)
(*                                                                         *)
(* Strings are sequences of tokens; the empty string is << >> (the only    *)
(* falsy string of JavaScript).  Every handler runs to completion on the   *)
(* single event-loop thread, so a handler is one action; React re-renders  *)
(* between two events, so a handler bound by the JSX (the two buttons, the *)
(* selects) sees the current state, while a handler created inside         *)
(* startRecording keeps the values of the render in which Record was       *)
(* clicked (the render's const bindings translated, srcLang, tgtLang).     *)
(* The environment is assumed to support audio/webm;codecs=opus, so the    *)
(* MediaRecorder constructor succeeds.                                     *)
(***************************************************************************)
EXTENDS Integers, Sequences, FiniteSets, TLC

\* ---------------------------------------------------------------- bounds
\* A behaviour is explored under one of two budgets: many sessions with few
\* chunks, or few sessions with many chunks.
ManyStarts == 2       \* startRecording calls, first budget
FewChunks == 1        \* non-empty chunks captured, first budget
FewStarts == 1        \* startRecording calls, second budget
ManyChunks == 2       \* non-empty chunks captured, second budget
MaxSelects == 1       \* changes of the language selection
Budgets ==
  { [starts |-> ManyStarts, chunks |-> FewChunks],
    [starts |-> FewStarts, chunks |-> ManyChunks] }

\* ------------------------------------------------------------- constants
SP == " "
BAR == " | "
NetworkError == "Network error"

Idle == "Idle"
Listening == "Listening..."
Stopped == "Stopped"
RecorderError == "Recorder error"
MicError == "Microphone access denied or not available"

\* The <option> values of the two selects; a tag is its parts around "-".
EN == <<"en", "US">>
HI == <<"hi", "IN">>
ES == <<"es", "ES">>
LanguageTags == {EN, HI, ES}

\* srcLang.split("-")[0]
TwoLetter(tag) == tag[1]

\* ----------------------------------------------------- response bodies
\* What is said in the chunk captured as the id-th one, and its translation.
Said(id) ==
  CASE id = 1 -> "hola" [] id = 2 -> "amigo" [] id = 3 -> "mio" [] OTHER -> "si"
Word(id) ==
  CASE id = 1 -> "Hello" [] id = 2 -> "there" [] id = 3 -> "friend" [] OTHER -> "yes"

Body(o, tc, s, t, tr, n) ==
  [original |-> o, transcript |-> tc, source |-> s, text |-> t,
   translation |-> tr, notes |-> n]

\* The JSON bodies the endpoint may answer the upload of chunk id with; an
\* absent field and an empty one are both << >>.
Responses(id) ==
  { Body(<<Said(id)>>, << >>, << >>, <<"raw">>, <<Word(id)>>, << >>),
    Body(<< >>, <<Said(id)>>, <<"src">>, << >>, << >>, <<"low confidence">>),
    Body(<< >>, << >>, <<Said(id)>>, <<"raw">>, <<Word(id)>>, <<"chunk", "Corrupt">>),
    Body(<< >>, << >>, << >>, << >>, <<Word(id)>>, <<"UNSUPPORTED AUDIO">>),
    Body(<<Said(id)>>, << >>, << >>, << >>, <<Word(id)>>, <<"Deepgram Error", "retry">>) }

\* Mutant of ToLower: the regular expression without its i flag.
SameCase(tok) == tok

\* String.prototype.toLowerCase on the tokens that occur in notes.
ToLower(tok) ==
  CASE tok = "Corrupt" -> "corrupt"
    [] tok = "Deepgram Error" -> "deepgram error"
    [] tok = "UNSUPPORTED AUDIO" -> "unsupported audio"
    [] OTHER -> tok

\* /corrupt|unsupported audio|deepgram error/i.test(s)
NoiseRegexTest(s) ==
  \E i \in 1..Len(s) :
    ToLower(s[i]) \in {"corrupt", "unsupported audio", "deepgram error"}

\* data.original || data.transcript || data.source || data.text
OrigCandidate(data) ==
  IF data.original # << >> THEN data.original
  ELSE IF data.transcript # << >> THEN data.transcript
  ELSE IF data.source # << >> THEN data.source
  ELSE data.text

\* Mutants of AppendWith: the fragment put in front; the field overwritten.
PrependWith(prev, sep, frag) ==
  IF prev # << >> THEN frag \o <<sep>> \o prev ELSE frag
OverwriteWith(prev, sep, frag) == frag

\* (prev) => (prev ? prev + sep + frag : frag)
AppendWith(prev, sep, frag) ==
  IF prev # << >> THEN prev \o <<sep>> \o frag ELSE frag

\* ------------------------------------------------------------------ state
VARIABLES
  recording, translated, original, notes, srcLang, tgtLang, status,
  mediaRecorderRef, streamRef, shouldAutoPlayRef,
  calls,      \* one record per startRecording call, in call order
  uploads,    \* the fetches in flight
  synth,      \* window.speechSynthesis: the utterances queued or playing
  nChunks,    \* non-empty chunks captured so far
  budget,     \* the budget of this behaviour
  mounted,    \* whether the component is mounted
  nSelects,   \* changes of the language selection so far
  sinceStop,  \* history: stopRecording ran and startRecording has not since
  arrived,    \* history: translations merged since the last startRecording
  autoPlays   \* history: automatic playbacks since the last startRecording

vars ==
  <<recording, translated, original, notes, srcLang, tgtLang, status,
    mediaRecorderRef, streamRef, shouldAutoPlayRef, calls, uploads, synth,
    nChunks, budget, mounted, nSelects, sinceStop, arrived, autoPlays>>

texts == <<translated, original, notes>>
langs == <<srcLang, tgtLang>>
refs == <<mediaRecorderRef, streamRef>>

Init ==
  /\ recording = FALSE
  /\ translated = << >>
  /\ original = << >>
  /\ notes = << >>
  /\ srcLang = EN
  /\ tgtLang = HI
  /\ status = Idle
  /\ mediaRecorderRef = 0
  /\ streamRef = 0
  /\ shouldAutoPlayRef = FALSE
  /\ calls = << >>
  /\ uploads = {}
  /\ synth = << >>
  /\ nChunks = 0
  /\ budget \in Budgets
  /\ mounted = TRUE
  /\ nSelects = 0
  /\ sinceStop = FALSE
  /\ arrived = << >>
  /\ autoPlays = 0

Ids == 1..Len(calls)
InPhase(p) == {k \in Ids : calls[k].phase = p}

\* A call whose handlers can run no more: the translated its closures held
\* is unreachable; the record keeps what became of the call and of its
\* stream, and the languages its uploads were issued with.
Finished(c, p) == [c EXCEPT !.phase = p, !.translated = << >>]

\* new SpeechSynthesisUtterance(text); u.lang = lang
Utterance(text, lang) == [text |-> text, lang |-> lang]

\* Mutant of CancelAndSpeak: speak without the cancel.
SpeakOnly(queue, u) == Append(queue, u)

\* window.speechSynthesis.cancel(); window.speechSynthesis.speak(u)
CancelAndSpeak(queue, u) == <<u>>

\* Mutant of ClearText: the field is left as it was.
KeepText(prev) == prev

\* setTranslated(""), setOriginal(""), setNotes("")
ClearText(prev) == << >>

\* -------------------------------------------------------------- handlers

\* Record button: startRecording up to its await.  The closures made later
\* in this call see this render's translated, srcLang and tgtLang.
startRecording ==
  /\ mounted
  /\ ~recording
  /\ Len(calls) < budget.starts
  /\ translated' = ClearText(translated)
  /\ original' = ClearText(original)
  /\ notes' = ClearText(notes)
  /\ status' = Listening
  /\ shouldAutoPlayRef' = TRUE
  /\ calls' = Append(calls, [phase |-> "awaiting", stream |-> "none",
                             translated |-> translated,
                             srcLang |-> srcLang, tgtLang |-> tgtLang])
  /\ arrived' = << >>
  /\ autoPlays' = 0
  /\ sinceStop' = FALSE
  /\ UNCHANGED <<budget, nSelects, mounted, recording, langs, refs, uploads, synth, nChunks>>

\* getUserMedia resolves: the rest of the try block.
getUserMediaResolved(k) ==
  /\ calls[k].phase = "awaiting"
  /\ streamRef' = k
  /\ mediaRecorderRef' = k
  /\ recording' = TRUE
  /\ calls' = [calls EXCEPT ![k].phase = "recording", ![k].stream = "live"]
  /\ UNCHANGED <<budget, nSelects, mounted, sinceStop, texts, langs, status, shouldAutoPlayRef, uploads, synth,
                 nChunks, arrived, autoPlays>>

\* getUserMedia rejects: the catch block.
getUserMediaRejected(k) ==
  /\ calls[k].phase = "awaiting"
  /\ status' = MicError
  /\ calls' = [calls EXCEPT ![k] = Finished(@, "denied")]
  /\ UNCHANGED <<budget, nSelects, mounted, sinceStop, recording, texts, langs, refs, shouldAutoPlayRef, uploads,
                 synth, nChunks, arrived, autoPlays>>

\* Mutant of Form: the form is built from the current selection.
FormCurrent(k, id) ==
  [id |-> id, call |-> k,
   src_lang |-> TwoLetter(srcLang),
   tgt_lang |-> TwoLetter(tgtLang)]

\* sendChunk up to its await: the form is built from the closure's languages
\* and the fetch is issued.
Form(k, id) ==
  [id |-> id, call |-> k,
   src_lang |-> TwoLetter(calls[k].srcLang),
   tgt_lang |-> TwoLetter(calls[k].tgtLang)]

\* recorder.ondataavailable of call k, fired every 3 s while recording.
ondataavailable(k, size) ==
  /\ calls[k].phase = "recording"
  /\ IF size > 0
       THEN /\ nChunks < budget.chunks
            /\ nChunks' = nChunks + 1
            /\ uploads' = uploads \cup {Form(k, nChunks + 1)}
       ELSE UNCHANGED <<nChunks, uploads>>
  /\ UNCHANGED <<budget, nSelects, mounted, sinceStop, recording, texts, langs, status, refs, shouldAutoPlayRef,
                 calls, synth, arrived, autoPlays>>

\* MediaRecorder.stop() on a recorder whose state is already "inactive":
\* a no-op in the current MediaStream Recording specification, an
\* InvalidStateError in earlier implementations.
StopMayThrow(k) == calls[k].phase # "recording"

\* Mutant of stopRecording: stopping also aborts the fetches in flight.
stopRecordingAborting(threw) ==
  /\ mounted
  /\ recording
  /\ threw => StopMayThrow(mediaRecorderRef)
  /\ calls' =
       [k \in Ids |->
          [calls[k] EXCEPT
             !.phase = IF k = mediaRecorderRef /\ @ = "recording"
                         THEN "stopping" ELSE @,
             !.stream = IF k = streamRef /\ ~threw /\ @ = "live"
                          THEN "stopped" ELSE @]]
  /\ recording' = FALSE
  /\ sinceStop' = TRUE
  /\ uploads' = {}
  /\ UNCHANGED <<budget, nSelects, mounted, texts, langs, status, refs, shouldAutoPlayRef,
                 synth, nChunks, arrived, autoPlays>>

\* Mutant of stopRecording: stopping also clears the notes.
stopRecordingClearing(threw) ==
  /\ mounted
  /\ recording
  /\ threw => StopMayThrow(mediaRecorderRef)
  /\ calls' =
       [k \in Ids |->
          [calls[k] EXCEPT
             !.phase = IF k = mediaRecorderRef /\ @ = "recording"
                         THEN "stopping" ELSE @,
             !.stream = IF k = streamRef /\ ~threw /\ @ = "live"
                          THEN "stopped" ELSE @]]
  /\ recording' = FALSE
  /\ sinceStop' = TRUE
  /\ notes' = << >>
  /\ UNCHANGED <<budget, nSelects, mounted, translated, original, langs, status, refs,
                 shouldAutoPlayRef, uploads, synth, nChunks, arrived, autoPlays>>

\* Stop button: stopRecording.  threw: whether mediaRecorderRef.current.stop()
\* threw, which skips the release of the stream.
stopRecording(threw) ==
  /\ mounted
  /\ recording
  /\ threw => StopMayThrow(mediaRecorderRef)
  /\ calls' =
       [k \in Ids |->
          [calls[k] EXCEPT
             !.phase = IF k = mediaRecorderRef /\ @ = "recording"
                         THEN "stopping" ELSE @,
             !.stream = IF k = streamRef /\ ~threw /\ @ = "live"
                          THEN "stopped" ELSE @]]
  /\ recording' = FALSE
  /\ sinceStop' = TRUE
  /\ UNCHANGED <<budget, nSelects, mounted, texts, langs, status, refs, shouldAutoPlayRef, uploads,
                 synth, nChunks, arrived, autoPlays>>

\* The task MediaRecorder.stop() queues: a last dataavailable event with the
\* data gathered so far, then the stop event: recorder.onstop sets the status
\* and arms the 350 ms timer.
recorderStopped(k, size) ==
  /\ calls[k].phase = "stopping"
  /\ IF size > 0 /\ nChunks < budget.chunks
       THEN /\ nChunks' = nChunks + 1
            /\ uploads' = uploads \cup {Form(k, nChunks + 1)}
       ELSE UNCHANGED <<nChunks, uploads>>
  /\ status' = Stopped
  /\ calls' = [calls EXCEPT ![k].phase = "settling"]
  /\ UNCHANGED <<budget, nSelects, mounted, sinceStop, recording, texts, langs, refs, shouldAutoPlayRef, synth,
                 arrived, autoPlays>>

\* recorder.onerror of call k.  inactivated: whether the platform also stops
\* the recorder after reporting the error (it then queues the stop task).
onerror(k, inactivated) ==
  /\ calls[k].phase = "recording"
  /\ status' = RecorderError
  /\ calls' = [calls EXCEPT
                 ![k].phase = IF inactivated THEN "stopping" ELSE @]
  /\ UNCHANGED <<budget, nSelects, mounted, sinceStop, recording, texts, langs, refs, shouldAutoPlayRef, uploads,
                 synth, nChunks, arrived, autoPlays>>

\* The rest of sendChunk's try block, once fetch and res.json() resolved.
fetchResolved(u, data) ==
  /\ u \in uploads
  /\ uploads' = uploads \ {u}
  /\ original' = IF OrigCandidate(data) # << >>
                   THEN AppendWith(original, SP, OrigCandidate(data))
                   ELSE original
  /\ translated' = IF data.translation # << >>
                     THEN AppendWith(translated, SP, data.translation)
                     ELSE translated
  /\ notes' = IF data.notes # << >> /\ ~NoiseRegexTest(data.notes)
                THEN AppendWith(notes, BAR, data.notes)
                ELSE notes
  /\ arrived' = IF data.translation # << >>
                  THEN Append(arrived, data.translation)
                  ELSE arrived
  /\ UNCHANGED <<budget, nSelects, mounted, sinceStop, recording, langs, status, refs, shouldAutoPlayRef, calls,
                 synth, nChunks, autoPlays>>

\* Mutant of fetchRejected: the failure is also surfaced as a status.
fetchRejectedStatus(u) ==
  /\ u \in uploads
  /\ uploads' = uploads \ {u}
  /\ notes' = AppendWith(notes, BAR, <<NetworkError>>)
  /\ status' = RecorderError
  /\ UNCHANGED <<budget, nSelects, mounted, sinceStop, recording, translated, original, langs, refs,
                 shouldAutoPlayRef, calls, synth, nChunks, arrived, autoPlays>>

\* sendChunk's catch block: fetch rejected, or res.json() could not decode.
fetchRejected(u) ==
  /\ u \in uploads
  /\ uploads' = uploads \ {u}
  /\ notes' = AppendWith(notes, BAR, <<NetworkError>>)
  /\ UNCHANGED <<budget, nSelects, mounted, sinceStop, recording, translated, original, langs, status, refs,
                 shouldAutoPlayRef, calls, synth, nChunks, arrived, autoPlays>>

\* Mutant of Disarmed: the right is left as it was.
StillArmed(right) == right

\* shouldAutoPlayRef.current = false
Disarmed(right) == FALSE

\* The 350 ms timer of call k expires: autoSpeak of the render in which
\* call k was made (its translated and tgtLang), with the live ref.
autoSpeak(k) ==
  /\ calls[k].phase = "settling"
  /\ calls' = [calls EXCEPT ![k] = Finished(@, "done")]
  /\ IF calls[k].translated = << >> \/ ~shouldAutoPlayRef
       THEN UNCHANGED <<synth, shouldAutoPlayRef, autoPlays>>
       ELSE /\ synth' = CancelAndSpeak(synth,
                          Utterance(calls[k].translated, calls[k].tgtLang))
            /\ shouldAutoPlayRef' = Disarmed(shouldAutoPlayRef)
            /\ autoPlays' = autoPlays + 1
  /\ UNCHANGED <<budget, nSelects, mounted, sinceStop, recording, texts, langs, status, refs, uploads, nChunks,
                 arrived>>

\* Mutant of manualSpeak: a replay that consumes the auto-play right.
manualSpeakConsuming ==
  /\ mounted
  /\ IF translated = << >>
       THEN UNCHANGED <<synth, shouldAutoPlayRef>>
       ELSE /\ synth' = CancelAndSpeak(synth, Utterance(translated, tgtLang))
            /\ shouldAutoPlayRef' = FALSE
  /\ UNCHANGED <<budget, nSelects, mounted, sinceStop, recording, texts, langs, status, refs,
                 calls, uploads, nChunks, arrived, autoPlays>>

\* Replay button: manualSpeak of the current render.
manualSpeak ==
  /\ mounted
  /\ IF translated = << >>
       THEN UNCHANGED synth
       ELSE synth' = CancelAndSpeak(synth, Utterance(translated, tgtLang))
  /\ UNCHANGED <<budget, nSelects, mounted, sinceStop, recording, texts, langs, status, refs, shouldAutoPlayRef,
                 calls, uploads, nChunks, arrived, autoPlays>>

\* The synthesizer finishes the utterance it is playing.
utteranceEnds ==
  /\ synth # << >>
  /\ synth' = Tail(synth)
  /\ UNCHANGED <<budget, nSelects, mounted, sinceStop, recording, texts, langs, status, refs, shouldAutoPlayRef,
                 calls, uploads, nChunks, arrived, autoPlays>>

\* onChange of the two selects.  Spec leaves the selection at its initial
\* value: the two handlers are disjuncts of NextLang, not of Next.
setSrcLang(tag) ==
  /\ mounted
  /\ nSelects < MaxSelects
  /\ tag # srcLang
  /\ srcLang' = tag
  /\ nSelects' = nSelects + 1
  /\ UNCHANGED <<budget, mounted, sinceStop, recording, texts, tgtLang, status, refs, shouldAutoPlayRef,
                 calls, uploads, synth, nChunks, arrived, autoPlays>>

setTgtLang(tag) ==
  /\ mounted
  /\ nSelects < MaxSelects
  /\ tag # tgtLang
  /\ tgtLang' = tag
  /\ nSelects' = nSelects + 1
  /\ UNCHANGED <<budget, mounted, sinceStop, recording, texts, srcLang, status, refs, shouldAutoPlayRef,
                 calls, uploads, synth, nChunks, arrived, autoPlays>>

Next ==
  \/ startRecording
  \/ \E k \in Ids : getUserMediaResolved(k)
  \/ \E k \in Ids : getUserMediaRejected(k)
  \/ \E k \in Ids, size \in {0, 1} : ondataavailable(k, size)
  \/ \E threw \in BOOLEAN : stopRecording(threw)
  \/ \E k \in Ids, size \in {0, 1} : recorderStopped(k, size)
  \/ \E k \in Ids, inactivated \in BOOLEAN : onerror(k, inactivated)
  \/ \E u \in uploads : \E data \in Responses(u.id) : fetchResolved(u, data)
  \/ \E u \in uploads : fetchRejected(u)
  \/ \E k \in Ids : autoSpeak(k)
  \/ manualSpeak
  \/ utteranceEnds

Spec == Init /\ [][Next]_vars

\* The component unmounts: the effect's cleanup stops the tracks of the
\* stream streamRef holds, and of no other.  A recorder whose tracks have
\* all ended is stopped by the platform.  No button is there to click
\* afterwards; the promises, recorder events, fetches and timers still run.
unmount ==
  /\ mounted
  /\ mounted' = FALSE
  /\ calls' = [k \in Ids |->
       IF k # streamRef THEN calls[k]
       ELSE [calls[k] EXCEPT
              !.stream = IF @ = "live" THEN "stopped" ELSE @,
              !.phase = IF @ = "recording" THEN "stopping" ELSE @]]
  /\ UNCHANGED <<budget, nSelects, sinceStop, recording, texts, langs, status, refs,
                 shouldAutoPlayRef, uploads, synth, nChunks, arrived, autoPlays>>

NextTeardown == Next \/ unmount

SpecTeardown == Init /\ [][NextTeardown]_vars

\* The program with the two selects in use, in the budget of many sessions.
\* The handlers that neither read nor write a language and issue no upload
\* (a denied request, a recorder fault, a failed upload, the end of an
\* utterance) are left to Spec, and every response is a clean one.
InitLang == Init /\ budget.starts = ManyStarts

NextLang ==
  \/ startRecording
  \/ \E k \in Ids : getUserMediaResolved(k)
  \/ \E k \in Ids, size \in {0, 1} : ondataavailable(k, size)
  \/ stopRecording(FALSE)
  \/ \E k \in Ids, size \in {0, 1} : recorderStopped(k, size)
  \/ \E u \in uploads : \E data \in {d \in Responses(u.id) : d.notes = << >>} :
       fetchResolved(u, data)
  \/ \E k \in Ids : autoSpeak(k)
  \/ manualSpeak
  \/ \E tag \in LanguageTags : setSrcLang(tag)
  \/ \E tag \in LanguageTags : setTgtLang(tag)

SpecLang == InitLang /\ [][NextLang]_vars

\* ================================================================ claims

\* The fragments joined by single spaces, folded from the right.
RECURSIVE JoinSp(_)
JoinSp(frags) ==
  IF frags = << >> THEN << >>
  ELSE IF Len(frags) = 1 THEN frags[1]
  ELSE frags[1] \o <<SP>> \o JoinSp(Tail(frags))

\* C1: whatever the order in which the responses of the chunk uploads arrive,
\* translatedText is the space-joined concatenation of their non-empty
\* translation fragments in arrival order (arrived, reset by every
\* startRecording), not in capture order.
C1_ArrivalOrderJoin == translated = JoinSp(arrived)

\* Two chunks captured as Hello, there; both responses landed, the second
\* chunk's first.
C1_Witness ==
  /\ nChunks = 2
  /\ uploads = {}
  /\ arrived = <<<<Word(2)>>, <<Word(1)>>>>
  /\ translated = <<"there", " ", "Hello">>

\* C2: every startRecording call leaves the three text fields empty, whatever
\* they held, and at that moment the new call has neither a recorder nor an
\* upload: no chunk of the new session precedes the reset.
C2_StartResets ==
  [][Len(calls') = Len(calls) + 1 =>
       /\ translated' = << >> /\ original' = << >> /\ notes' = << >>
       /\ calls'[Len(calls')].phase = "awaiting"
       /\ \A u \in uploads' : u.call # Len(calls')]_vars

\* The second call was made while translated held text (the call's closure
\* kept it) and the fields are empty after it.
C2_Witness ==
  /\ Len(calls) = 2
  /\ calls[2].phase = "awaiting"
  /\ calls[2].translated # << >>
  /\ translated = << >> /\ original = << >> /\ notes = << >>

\* The settle timer of call k expires in this step.
TimerExpires(k) == calls[k].phase = "settling" /\ calls'[k].phase = "done"

\* C3: when the settle timer expires while translatedText is non-empty and
\* the auto-play right is armed, an automatic playback occurs and speaks the
\* current translatedText.
C3_AutoPlaySpeaksCurrent ==
  [][\A k \in Ids :
       (TimerExpires(k) /\ translated # << >> /\ shouldAutoPlayRef) =>
         /\ autoPlays' = autoPlays + 1
         /\ Len(synth') = 1
         /\ synth'[1].text = translated]_vars

\* C4: when the settle timer expires while translatedText is empty, no
\* automatic playback is triggered, whatever an earlier session ended with.
C4_NoAutoPlayWhenEmpty ==
  [][\A k \in Ids :
       (TimerExpires(k) /\ translated = << >>) =>
         (autoPlays' = autoPlays /\ synth' = synth)]_vars

Merged(prev, sep, frag) ==
  IF frag = << >> THEN prev
  ELSE IF prev = << >> THEN frag
  ELSE prev \o <<sep>> \o frag

\* C6: a failed upload appends the marker "Network error" to notes (notes is
\* exactly the marker when it was empty), changes neither originalText nor
\* translatedText, issues no new request for the chunk, and leaves the status,
\* isRecording and every recorder as they were.
C6_UploadFailure ==
  [][\A u \in uploads :
       fetchRejected(u) =>
         /\ notes' = Merged(notes, " | ", <<"Network error">>)
         /\ original' = original /\ translated' = translated
         /\ uploads' = uploads \ {u} /\ nChunks' = nChunks
         /\ status' = status /\ recording' = recording /\ calls' = calls]_vars

\* The first chunk's upload failed; the session is still recording, status
\* Listening, and the next chunk was captured and is being uploaded.
C6_Witness ==
  /\ notes = <<"Network error">>
  /\ translated = << >> /\ original = << >>
  /\ status = Listening /\ recording
  /\ calls[1].phase = "recording"
  /\ uploads = {Form(1, 2)}

\* C7: when the device-access request of a startRecording call is rejected,
\* status is the microphone error, isRecording is false, and the call has no
\* recorder and no upload; a later call whose request is granted brings
\* status Listening with isRecording true.
C7_DeniedStart ==
  [][\A k \in Ids :
       /\ (calls[k].phase = "awaiting" /\ calls'[k].phase = "denied") =>
            /\ status' = MicError
            /\ ~recording'
            /\ mediaRecorderRef' # k
            /\ \A u \in uploads' : u.call # k
       /\ (/\ calls[k].phase = "awaiting" /\ calls'[k].phase = "recording"
           /\ \E j \in 1..(k - 1) : calls[j].phase = "denied") =>
            (status' = Listening /\ recording')]_vars

\* The notes that match the filter, listed as the endpoint spells them.
IsNoise(n) ==
  \E i \in 1..Len(n) :
    n[i] \in {"corrupt", "Corrupt", "unsupported audio", "UNSUPPORTED AUDIO",
              "deepgram error", "Deepgram Error"}
NoiseBodies(id) == {d \in Responses(id) : IsNoise(d.notes)}

\* C8: notes never holds a token of a response whose notes matched the
\* filter; merging such a response leaves notes as it was (no marker, no
\* error path) and still merges its original-text and translation fragments.
C8_NoiseSuppressed ==
  /\ [](\A id \in 1..nChunks : \A d \in NoiseBodies(id) :
          \A i \in 1..Len(notes), j \in 1..Len(d.notes) :
            notes[i] # d.notes[j])
  /\ [][\A u \in uploads : \A d \in NoiseBodies(u.id) :
          fetchResolved(u, d) =>
            /\ notes' = notes
            /\ original' = Merged(original, " ", OrigCandidate(d))
            /\ translated' = Merged(translated, " ", d.translation)]_vars

\* The only response merged so far is the one noted UNSUPPORTED AUDIO (a
\* translation, no original text): its translation is shown, notes is empty.
C8_Witness ==
  /\ nChunks = 1
  /\ uploads = {}
  /\ translated = <<Word(1)>>
  /\ original = << >>
  /\ notes = << >>

\* C9: stopRecording leaves every upload in flight; an upload leaves the set
\* only by completing, and a response that lands while isRecording is false
\* is merged by the same rule.
C9_InFlightSurviveStop ==
  [][/\ (recording /\ ~recording') => (uploads' = uploads)
     /\ \A u \in uploads :
          u \notin uploads' =>
            (fetchRejected(u) \/ \E d \in Responses(u.id) : fetchResolved(u, d))
     /\ \A u \in uploads : \A d \in Responses(u.id) :
          (~recording /\ fetchResolved(u, d)) =>
            /\ original' = Merged(original, " ", OrigCandidate(d))
            /\ translated' = Merged(translated, " ", d.translation)
            /\ notes' = IF IsNoise(d.notes) THEN notes
                        ELSE Merged(notes, " | ", d.notes)]_vars

\* Recording was stopped while an upload was in flight; the upload is still
\* in flight after the recorder's stop event.
C9_Witness ==
  /\ ~recording
  /\ status = Stopped
  /\ Len(calls) = 1
  /\ calls[1].phase \in {"settling", "done"}
  /\ uploads # {}

\* C10: every playback cancels the queue and speaks one utterance: the
\* synthesizer never holds more than one utterance, an automatic playback
\* leaves exactly its own utterance, and any other step leaves the queue as
\* it was, shortens it, or (Replay) leaves exactly the replayed utterance.
C10_OneUtterance ==
  /\ [](Len(synth) <= 1)
  /\ [][IF autoPlays' = autoPlays + 1
          THEN \E k \in Ids :
                 /\ TimerExpires(k)
                 /\ synth' = <<Utterance(calls[k].translated, calls[k].tgtLang)>>
          ELSE \/ synth' = synth
               \/ synth # << >> /\ synth' = Tail(synth)
               \/ translated # << >> /\ synth' = <<Utterance(translated, tgtLang)>>]_vars

\* Replay was pressed in the first session and the automatic playback of the
\* second has fired since: the queue holds one utterance.
C10_Witness ==
  /\ autoPlays = 1
  /\ Len(calls) = 2
  /\ synth = <<Utterance(<<Word(1)>>, HI)>>


\* C11 (as claimed): in every state, for any value of translated, a click on
\* Replay leaves the synthesizer holding exactly one utterance, that of the
\* current translated in the current target language.
C11_ReplayAlwaysSpeaks ==
  ENABLED (manualSpeak /\ synth' = <<Utterance(translated, tgtLang)>>)

\* C11 (amended): in every state with a non-empty translated a click on
\* Replay cancels what the synthesizer holds and leaves it holding exactly
\* the utterance of the current translated in the current target language;
\* with an empty translated the click does nothing, and an utterance that is
\* playing goes on.
C11_ReplaySpeaksNonEmpty ==
  ENABLED (/\ manualSpeak
           /\ IF translated # << >>
                THEN synth' = <<Utterance(translated, tgtLang)>>
                ELSE synth' = synth)

\* A session that was replayed after its stop: no automatic playback has run
\* in a first session, so the utterance comes from the Replay button.
C11_Witness ==
  /\ Len(calls) = 1
  /\ status = Stopped
  /\ translated # << >>
  /\ synth = <<Utterance(translated, tgtLang)>>


\* C12: Replay neither reads nor changes the auto-play right.  In every
\* state, armed or not, a click on Replay leaves shouldAutoPlayRef, the
\* pending calls and their timers as they are, and with a non-empty
\* translated it plays; so the timer that expires after any number of
\* replays meets the state of the right and the closure it would have met
\* without them.
C12_ReplayLeavesRight ==
  ENABLED (/\ manualSpeak
           /\ shouldAutoPlayRef' = shouldAutoPlayRef
           /\ calls' = calls
           /\ autoPlays' = autoPlays
           /\ translated # << >> => synth' = <<Utterance(translated, tgtLang)>>)

\* Replay has played during the settle delay and the right is still armed.
C12_Witness ==
  /\ shouldAutoPlayRef
  /\ translated # << >>
  /\ synth = <<Utterance(translated, tgtLang)>>
  /\ InPhase("settling") # {}


\* C13 (as claimed): from the stopRecording call until the next
\* startRecording call, recording is false and a status that has become
\* Stopped stays Stopped.
C13_StoppedUntilNextStart ==
  [][sinceStop' =>
       /\ ~recording'
       /\ (sinceStop /\ status = Stopped) => status' = Stopped]_vars


\* C14 (as claimed): in every reachable state at most one audio stream is
\* held and at most one recorder is emitting chunks.
C14_OneSessionActive ==
  /\ Cardinality({k \in Ids : calls[k].stream = "live"}) <= 1
  /\ Cardinality(InPhase("recording")) <= 1

\* C15 (as claimed): once the component is torn down no acquired stream is
\* still live, whatever happened before the teardown and whatever the
\* pending permission requests do after it.
C15_StreamsReleased ==
  ~mounted => \A k \in Ids : calls[k].stream # "live"

\* C16 (as claimed, in the case the claim singles out): a call whose stream
\* stopRecording has released is a previous session once startRecording has
\* been called since that stop; the completion of an upload that such a call
\* issued leaves the three fields of the new session unchanged.
C16_OnlyNewSession ==
  [][\A u \in uploads :
       ( /\ u.call < Len(calls)
         /\ calls[u.call].stream = "stopped"
         /\ ~sinceStop
         /\ u \notin uploads' ) => UNCHANGED texts]_vars


\* a is b or a beginning of b.
IsPrefix(a, b) == Len(a) <= Len(b) /\ SubSeq(b, 1, Len(a)) = a

\* C17: between two startRecording calls every step (merge of a response,
\* failed upload, stop, replay, automatic playback, recorder event) leaves
\* each of original, translated and notes unchanged or extended at its end:
\* the old value is a prefix of the new one.
C17_FieldsOnlyExtended ==
  [][Len(calls') = Len(calls) =>
       /\ IsPrefix(original, original')
       /\ IsPrefix(translated, translated')
       /\ IsPrefix(notes, notes')]_vars

\* Both chunks of a session were merged, the second after the first.
C17_Witness ==
  /\ translated = <<Word(1), SP, Word(2)>>
  /\ original = <<Said(1), SP, Said(2)>>

\* C18 (as claimed): once stopRecording has run and recording is false, no
\* step changes original, translated or notes until the next startRecording.
C18_ReadOnlyAfterStop ==
  [][(sinceStop' /\ ~recording' /\ Len(calls') = Len(calls)) =>
       UNCHANGED texts]_vars

\* C18 (amended): once stopRecording has run and recording is false, until
\* the next startRecording the three fields change only in a step that
\* completes a chunk upload (its response merged, or its failure noted), and
\* then each field is unchanged or extended at its end; the stop itself,
\* replay, automatic playback, the timer and the recorder's events leave
\* them unchanged.
C18_OnlyUploadsAfterStop ==
  [][(sinceStop' /\ ~recording' /\ Len(calls') = Len(calls)) =>
       \/ UNCHANGED texts
       \/ /\ \E u \in uploads : uploads' = uploads \ {u}
          /\ IsPrefix(original, original')
          /\ IsPrefix(translated, translated')
          /\ IsPrefix(notes, notes')]_vars

\* The session was stopped, its settle delay is over, a translation is on
\* display and the upload of a chunk is still in flight.
C18_Witness ==
  /\ sinceStop
  /\ ~recording
  /\ translated # << >>
  /\ uploads # {}
  /\ calls[Len(calls)].phase = "done"


\* The two statuses that report an error.
ErrorStatuses == {MicError, RecorderError}

\* C19 (as claimed): the only step that moves status from Listening to an
\* error status is the failure of a startRecording call (its getUserMedia
\* promise rejects).
C19_ErrorOnlyFromFailedStart ==
  [][(status = Listening /\ status' \in ErrorStatuses) =>
       \E k \in Ids : getUserMediaRejected(k)]_vars

\* C19 (amended): status leaves Idle only for Listening and becomes Listening
\* only by a startRecording call; the only steps that move it from Listening
\* to an error status are the failure of a startRecording call (microphone
\* error) and a fault reported by a recorder (recorder error); besides
\* these only a recorder's stop event changes it (an upload, a playback or
\* a Stop click never does); and from either error status a startRecording
\* call sets Listening.
C19_StatusMoves ==
  [][/\ (status = Idle /\ status' # Idle) => status' = Listening
     /\ (status # Listening /\ status' = Listening) =>
          Len(calls') = Len(calls) + 1
     /\ (status = Listening /\ status' \in ErrorStatuses) =>
          \/ status' = MicError /\ \E k \in Ids : getUserMediaRejected(k)
          \/ /\ status' = RecorderError
             /\ \E k \in Ids, inactivated \in BOOLEAN : onerror(k, inactivated)
     /\ status' # status =>
          \/ startRecording
          \/ \E k \in Ids : getUserMediaRejected(k)
          \/ \E k \in Ids, size \in {0, 1} : recorderStopped(k, size)
          \/ \E k \in Ids, inactivated \in BOOLEAN : onerror(k, inactivated)
     /\ (status \in ErrorStatuses /\ Len(calls') = Len(calls) + 1) =>
          status' = Listening]_vars

\* A first start was denied, a second start left the error status, was
\* granted, and its recorder then reported a fault.
C19_Witness ==
  /\ Len(calls) = 2
  /\ calls[1].phase = "denied"
  /\ calls[2].phase = "recording"
  /\ status = RecorderError


\* C20: the language pair of a session is fixed by its startRecording call.
\* The call keeps the source and target selected when Record is clicked and
\* no later step changes what it keeps; every upload issued afterwards
\* carries the two-letter codes of the pair kept by the call that captured
\* the chunk, and an automatic playback speaks in the target kept by the
\* call whose timer expired, whatever the selection is by then; a replay
\* speaks in the target selected when Replay is clicked.
C20_LanguagePairFixedAtStart ==
  [][/\ Len(calls') = Len(calls) + 1 =>
          /\ calls'[Len(calls')].srcLang = srcLang
          /\ calls'[Len(calls')].tgtLang = tgtLang
     /\ \A k \in Ids :
          /\ calls'[k].srcLang = calls[k].srcLang
          /\ calls'[k].tgtLang = calls[k].tgtLang
     /\ \A u \in uploads' \ uploads :
          /\ u.src_lang = TwoLetter(calls[u.call].srcLang)
          /\ u.tgt_lang = TwoLetter(calls[u.call].tgtLang)
     /\ autoPlays' = autoPlays + 1 =>
          \E k \in Ids : TimerExpires(k) /\ synth'[1].lang = calls[k].tgtLang
     /\ (manualSpeak /\ translated # << >>) => synth'[1].lang = tgtLang]_vars

\* The selection was changed while the latest session was recording, and the
\* upload of a chunk it captured afterwards carries a code of the pair
\* selected at its start, not of the current selection.
C20_Witness ==
  /\ nSelects > 0
  /\ \E u \in uploads :
       /\ u.call = Len(calls)
       /\ u.src_lang = TwoLetter(calls[u.call].srcLang)
       /\ u.tgt_lang = TwoLetter(calls[u.call].tgtLang)
       /\ <<u.src_lang, u.tgt_lang>> # <<TwoLetter(srcLang), TwoLetter(tgtLang)>>

============================================================================
